---- MODULE Spec2Model ----
(***************************************************************************)
(* A model of python-brasa's download orchestration                        *)
(* (src/brasa/downloaders/downloaders.py) and reader dispatch              *)
(* (src/brasa/readers/helpers.py).                                         *)
(*                                                                         *)
(* Four specifications share the module's variables:                       *)
(*   Spec         download_by_config, statement by statement               *)
(*   SpecMonth    get_month applied to bounded dates and month deltas      *)
(*   SpecReaders  the named readers applied to a CacheMetadata entry       *)
(*   SpecB3       B3FilesURLDownloader.download, request by request        *)
(*                                                                         *)
(* Python's None is the empty tuple and a present value x is <<x>>, so     *)
(* that optional values of any type can be compared.                       *)
(***************************************************************************)
EXTENDS Integers, Sequences, FiniteSets

VARIABLES
    \* get_month
    gm_dt, gm_monthdelta, gm_result,
    \* reader dispatch
    downloaded_files, rd_name, rd_before, rd_parsed,
    \* download_by_config
    pc, config, now, refdate_arg, env, dl_result, calls, ret, exc,
    \* B3FilesURLDownloader.download
    b3_pc, b3_now, b3_refdate, b3_requests, b3_sc1, b3_sc2, b3_result, b3_exc

gm_vars == <<gm_dt, gm_monthdelta, gm_result>>
rd_vars == <<downloaded_files, rd_name, rd_before, rd_parsed>>
dbc_vars == <<pc, config, now, refdate_arg, env, dl_result, calls, ret, exc>>
b3_vars == <<b3_pc, b3_now, b3_refdate, b3_requests, b3_sc1, b3_sc2, b3_result, b3_exc>>
vars == <<gm_vars, rd_vars, dbc_vars, b3_vars>>

None == <<>>
Some(x) == <<x>>

(***************************************************************************)
(* Bounds                                                                  *)
(***************************************************************************)
\* the dates of get_month's inputs span the years 2023 .. 2023 + YearSpan
YearSpan == 1
\* the month deltas tried are -MaxDelta .. 1
MaxDelta == 14
\* a CacheMetadata entry holds at most MaxFiles filenames
MaxFiles == 3
\* a configured download_weekdays holds at most MaxWeekdays weekdays
MaxWeekdays == 2
\* an archive holds at most MaxEntries entries
MaxEntries == 2

(***************************************************************************)
(* datetime.date, as far as the code uses it                               *)
(***************************************************************************)
date(y, m, d) == [year |-> y, month |-> m, day |-> d]

IsLeap(y) == (y % 4 = 0 /\ y % 100 # 0) \/ y % 400 = 0

DaysInMonth(y, m) ==
    IF m = 2 THEN (IF IsLeap(y) THEN 29 ELSE 28)
    ELSE IF m \in {4, 6, 9, 11} THEN 30 ELSE 31

\* dt + timedelta(-1) with the year not rolled back across January
PrevDayYearKept(dt) ==
    IF dt.day > 1 THEN date(dt.year, dt.month, dt.day - 1)
    ELSE IF dt.month > 1
         THEN date(dt.year, dt.month - 1, DaysInMonth(dt.year, dt.month - 1))
         ELSE date(dt.year, 12, 31)

\* dt + timedelta(-1), the month and the year rolled back as the calendar
\* has them
PrevDay(dt) ==
    IF dt.day > 1 THEN date(dt.year, dt.month, dt.day - 1)
    ELSE IF dt.month > 1
         THEN date(dt.year, dt.month - 1, DaysInMonth(dt.year, dt.month - 1))
         ELSE date(dt.year - 1, 12, 31)

\* dt + timedelta(1)
NextDay(dt) ==
    IF dt.day < DaysInMonth(dt.year, dt.month)
    THEN date(dt.year, dt.month, dt.day + 1)
    ELSE IF dt.month < 12 THEN date(dt.year, dt.month + 1, 1)
         ELSE date(dt.year + 1, 1, 1)

RECURSIVE AddDays(_, _)
\* dt + timedelta(n)
AddDays(dt, n) ==
    IF n = 0 THEN dt
    ELSE IF n < 0 THEN AddDays(PrevDay(dt), n + 1)
    ELSE AddDays(NextDay(dt), n - 1)

RECURSIVE DaysBeforeMonth(_, _)
\* the days of year y before its month m
DaysBeforeMonth(y, m) ==
    IF m = 1 THEN 0 ELSE DaysBeforeMonth(y, m - 1) + DaysInMonth(y, m - 1)

\* date.toordinal(): 0001-01-01 is day 1
ToOrdinal(dt) ==
    LET y == dt.year - 1
    IN  y * 365 + (y \div 4) - (y \div 100) + (y \div 400)
        + DaysBeforeMonth(dt.year, dt.month) + dt.day

\* date.weekday(): Monday is 0, Sunday is 6
Weekday(dt) == (ToOrdinal(dt) + 6) % 7

(***************************************************************************)
(* get_month(dt, monthdelta)                                               *)
(***************************************************************************)
RECURSIVE get_month_loop(_, _, _)
\* the while loop of get_month: first and delta are the loop's variables
get_month_loop(first, delta, monthdelta) ==
    IF delta > monthdelta
    THEN LET dt == PrevDay(first)
         IN  get_month_loop(date(dt.year, dt.month, 1), delta - 1, monthdelta)
    ELSE first

get_month(dt, monthdelta) ==
    get_month_loop(date(dt.year, dt.month, 1), 0, monthdelta)

Years == 2023 .. (2023 + YearSpan)

Dates ==
    { date(y, m, d) : y \in Years, m \in 1 .. 12, d \in 1 .. 31 }
        \ { dt \in [year : Years, month : 1 .. 12, day : 29 .. 31] :
                dt.day > DaysInMonth(dt.year, dt.month) }

MonthDeltas == (0 - MaxDelta) .. 1

\* the arguments of one call
GmInit ==
    /\ gm_dt \in { Some(dt) : dt \in Dates }
    /\ gm_monthdelta \in MonthDeltas
    /\ gm_result = None

\* the call get_month(dt, monthdelta), as FundosInfDiarioDownloader.get_refmonth
\* makes it with dt = now and monthdelta = attrs["month_reference"]
GetMonthCall ==
    /\ gm_dt # None
    /\ gm_result = None
    /\ gm_result' = Some(get_month(gm_dt[1], gm_monthdelta))
    /\ UNCHANGED <<gm_dt, gm_monthdelta>>
    /\ UNCHANGED <<rd_vars, dbc_vars, b3_vars>>

(***************************************************************************)
(* Reader dispatch: read_b3_cotahist, read_b3_bvbg028, read_b3_bvbg086,    *)
(* read_b3_cdi, read_b3_futures_settlement_prices                          *)
(***************************************************************************)
\* A filename is a string: a tuple of character codes.
FileNames == { <<1>>, <<1, 1>>, <<1, 2>>, <<2>>, <<2, 1>>, <<3, 1, 1>> }

RECURSIVE StrLess(_, _)
\* Python's a < b on strings: by code point, a proper prefix first
StrLess(a, b) ==
    IF b = <<>> THEN FALSE
    ELSE IF a = <<>> THEN TRUE
    ELSE IF a[1] # b[1] THEN a[1] < b[1]
    ELSE StrLess(Tail(a), Tail(b))

RECURSIVE Insert(_, _)
\* x put into the ascending list s, after the filenames equal to it
Insert(x, s) ==
    IF s = <<>> THEN <<x>>
    ELSE IF StrLess(x, s[1]) THEN <<x>> \o s
    ELSE <<s[1]>> \o Insert(x, Tail(s))

RECURSIVE InsertAll(_, _)
\* the filenames of s put one by one into the ascending list acc
InsertAll(s, acc) ==
    IF s = <<>> THEN acc ELSE InsertAll(Tail(s), Insert(s[1], acc))

\* a sort that leaves the list as it is
SortKeepsOrder(paths) == paths

\* what paths.sort() leaves in the list: the filenames in ascending order
SortPaths(paths) == InsertAll(paths, <<>>)

RECURSIVE SeqsUpTo(_, _)
\* the tuples over S of length 0 .. n
SeqsUpTo(S, n) ==
    IF n = 0 THEN { <<>> }
    ELSE LET shorter == SeqsUpTo(S, n - 1)
         IN  shorter \cup { Append(s, x) : s \in shorter, x \in S }

\* meta.downloaded_files is the list object itself: CacheMetadata is used as
\* a plain attribute holder, so what a reader does to the list is done to the
\* entry.
RdInit ==
    /\ downloaded_files \in SeqsUpTo(FileNames, MaxFiles)
    /\ rd_name = "none"
    /\ rd_before = <<>>
    /\ rd_parsed = None

\* the readers that parse meta.downloaded_files[0]; on an empty list the
\* index raises IndexError and nothing is parsed
ReadFirst(name) ==
    /\ rd_name' = name
    /\ rd_before' = downloaded_files
    /\ rd_parsed' = IF downloaded_files = <<>> THEN None
                    ELSE Some(downloaded_files[1])
    /\ UNCHANGED downloaded_files
    /\ UNCHANGED <<gm_vars, dbc_vars, b3_vars>>

\* the readers that sort meta.downloaded_files in place and parse paths[-1]
ReadSortedLast(name) ==
    LET paths == SortPaths(downloaded_files)
    IN  /\ rd_name' = name
        /\ rd_before' = downloaded_files
        /\ downloaded_files' = paths
        /\ rd_parsed' = IF paths = <<>> THEN None ELSE Some(paths[Len(paths)])
        /\ UNCHANGED <<gm_vars, dbc_vars, b3_vars>>

read_b3_cotahist == ReadFirst("read_b3_cotahist")

read_b3_bvbg028 == ReadSortedLast("read_b3_bvbg028")

read_b3_bvbg086 == ReadSortedLast("read_b3_bvbg086")

read_b3_cdi == ReadFirst("read_b3_cdi")

read_b3_futures_settlement_prices == ReadFirst("read_b3_futures_settlement_prices")

(***************************************************************************)
(* Downloader strategies, as download_by_config sees them.  A download     *)
(* either raises (raised = <<text>>) or returns the tuple in value.        *)
(***************************************************************************)
Raise(text) == [raised |-> Some(text), value |-> <<>>]
Return(tuple) == [raised |-> None, value |-> tuple]

StatusCodes == {200, 204, 404}

\* The instants the Last-Modified header may name: a UTC date and hour.
LastModifieds ==
    { [date |-> date(2024, 3, 1), hour |-> 1], [date |-> date(2024, 3, 15), hour |-> 12] }

\* What the network answers to one download_url(url): the status code, the
\* number of entries of the archive in the body, the Last-Modified header
\* (None: the header is missing) and the error requests raises (None: none).
Envs ==
    [sc : StatusCodes, entries : 0 .. MaxEntries,
     last_modified : {None} \cup { Some(lm) : lm \in LastModifieds },
     error : {None, Some("ConnectionError")}]

\* The answers that differ in what the downloader of attrs reads: only an
\* archive has entries, and PreparedURLDownloader does not read Last-Modified.
EnvsOf(attrs) ==
    { e \in Envs :
        /\ attrs.downloader = "StaticFileDownloader" => e.entries = 0
        /\ attrs.downloader = "PreparedURLDownloader" => e.last_modified = None }

\* pytz.UTC.localize(refdate).astimezone(SP_TZ): Sao Paulo is UTC-3
AsSaoPaulo(lm) == IF lm.hour < 3 THEN PrevDay(lm.date) ELSE lm.date

\* refdate.strftime(fmt)
Strftime(d, fmt) == <<fmt, d.year, d.month, d.day>>

\* The owning template's filename policy.
get_fname(fname, refdate) == <<"get_fname", fname, refdate>>

\* attrs["ext"], or the extension of the source URL
Ext(attrs) == IF attrs.ext # None THEN <<".", attrs.ext[1]>> ELSE <<"splitext(url)">>

\* StaticFileDownloader.get_fname2 and StaticZipFileDownloader.get_fname2
get_fname2(attrs, refdate) == <<Strftime(refdate, "%Y-%m-%d"), Ext(attrs)>>

\* FundosInfDiarioDownloader.get_refmonth
get_refmonth(attrs, nw) == get_month(nw, attrs.month_reference[1])

\* FundosInfDiarioDownloader.get_fname2
Fundos_get_fname2(attrs, nw, refdate) ==
    <<Strftime(get_refmonth(attrs, nw), "%Y-%m"), "/",
      Strftime(refdate, "%Y-%m-%d"), Ext(attrs)>>

\* StaticFileDownloader.download
StaticFileDownload(attrs, nw, refdate, e) ==
    IF e.error # None THEN Raise(e.error[1])
    ELSE IF e.last_modified = None THEN Raise("'last-modified'")
    ELSE LET rd == AsSaoPaulo(e.last_modified[1])
         IN  IF e.sc # 200 THEN Return(<<None, None, e.sc, Some(rd)>>)
             ELSE Return(<<Some(get_fname(get_fname2(attrs, rd), rd)),
                           Some("tfile"), e.sc, Some(rd)>>)

\* self.get_fname2(refdate), by the class of self
self_get_fname2(attrs, nw, refdate) ==
    IF attrs.downloader = "FundosInfDiarioDownloader"
    THEN Fundos_get_fname2(attrs, nw, refdate)
    ELSE get_fname2(attrs, refdate)

\* StaticZipFileDownloader.download, which FundosInfDiarioDownloader inherits
StaticZipFileDownload(attrs, nw, refdate, e) ==
    IF e.error # None THEN Raise(e.error[1])
    ELSE IF e.last_modified = None THEN Raise("'last-modified'")
    ELSE LET rd == AsSaoPaulo(e.last_modified[1])
         IN  IF e.sc # 200 THEN Return(<<None, None, e.sc, Some(rd)>>)
             ELSE IF e.entries = 0 THEN Return(<<None, None, 204>>)
             ELSE Return(<<Some(get_fname(self_get_fname2(attrs, nw, rd), rd)),
                           Some("temp"), e.sc, Some(rd)>>)

\* PreparedURLDownloader._download_unzip_historical_data
download_unzip_historical_data(e) ==
    IF e.error # None THEN Raise(e.error[1])
    ELSE IF e.sc # 200 THEN Return(<<None, None, e.sc>>)
    ELSE IF e.entries = 0 THEN Return(<<None, None, 204>>)
    ELSE Return(<<Some(<<"nl[0]">>), Some("temp"), e.sc>>)

\* The params PreparedURLDownloader.download builds from attrs["parameters"]:
\* a structured descriptor of type "datetime" gives the formatted refdate, a
\* plain value is passed through, any other structured descriptor gives no
\* parameter.
BuildParams(parameters, refdate) ==
    { [name |-> p.name,
       value |-> IF p.isdict THEN Strftime(refdate, p.value) ELSE <<p.value>>] :
      p \in { q \in parameters : q.isdict => q.type = "datetime" } }

\* url.format(**params): the first placeholder of the URL that params lacks,
\* which format raises as a KeyError
MissingField(url_fields, params) ==
    LET missing == url_fields \ { p.name : p \in params }
    IN  IF missing = {} THEN None ELSE Some(CHOOSE f \in missing : TRUE)

\* PreparedURLDownloader.download as it would be if the helper's tuple were
\* handed on as it is
PreparedURLDownloadUnwrapped(attrs, nw, refdate, e) ==
    LET rd == IF refdate # None THEN refdate[1]
              ELSE AddDays(nw, IF attrs.timedelta # None THEN attrs.timedelta[1] ELSE 0)
        params == BuildParams(attrs.parameters, rd)
        missing == MissingField(attrs.url_fields, params)
        got == download_unzip_historical_data(e)
    IN  IF missing # None THEN Raise(missing[1])
        ELSE IF got.raised # None THEN got
        ELSE IF got.value[3] # 200 THEN Return(got.value)
        ELSE Return(<<Some(get_fname(got.value[1][1], rd)), got.value[2],
                      got.value[3], Some(rd)>>)

\* PreparedURLDownloader.download
PreparedURLDownload(attrs, nw, refdate, e) ==
    LET rd == IF refdate # None THEN refdate[1]
              ELSE AddDays(nw, IF attrs.timedelta # None THEN attrs.timedelta[1] ELSE 0)
        params == BuildParams(attrs.parameters, rd)
        missing == MissingField(attrs.url_fields, params)
        got == download_unzip_historical_data(e)
    IN  IF missing # None THEN Raise(missing[1])
        ELSE IF got.raised # None THEN got
        ELSE IF got.value[3] # 200 THEN Return(<<None, None, got.value[3], Some(rd)>>)
        ELSE Return(<<Some(get_fname(got.value[1][1], rd)), got.value[2],
                      got.value[3], Some(rd)>>)

DownloaderKinds ==
    {"StaticFileDownloader", "StaticZipFileDownloader",
     "FundosInfDiarioDownloader", "PreparedURLDownloader"}

\* downloader.download(refdate=refdate), by the class the factory built
download(attrs, nw, refdate, e) ==
    CASE attrs.downloader = "StaticFileDownloader" ->
            StaticFileDownload(attrs, nw, refdate, e)
      [] attrs.downloader = "StaticZipFileDownloader" ->
            StaticZipFileDownload(attrs, nw, refdate, e)
      [] attrs.downloader = "FundosInfDiarioDownloader" ->
            StaticZipFileDownload(attrs, nw, refdate, e)
      [] attrs.downloader = "PreparedURLDownloader" ->
            PreparedURLDownload(attrs, nw, refdate, e)

(***************************************************************************)
(* download_by_config(config_data, save_func, refdate)                     *)
(***************************************************************************)
Weekdays == 0 .. 6

\* attrs["parameters"] of a PreparedURLDownloader template: a plain value, a
\* structured descriptor of type "datetime", one of another type
ParameterSets ==
    { { [name |-> "dt", isdict |-> FALSE, type |-> "", value |-> "20240315"] },
      { [name |-> "dt", isdict |-> TRUE, type |-> "datetime", value |-> "%Y%m%d"] },
      { [name |-> "dt", isdict |-> TRUE, type |-> "text", value |-> "x"] } }

\* The fields of a template that only one downloader class reads.
KindAttrs ==
    [downloader : {"StaticFileDownloader", "StaticZipFileDownloader", "unknown"},
     timedelta : {None}, month_reference : {None},
     parameters : { {} }, url_fields : { {} }]
    \cup
    [downloader : {"FundosInfDiarioDownloader"},
     timedelta : {None}, month_reference : {Some(0), Some(-1)},
     parameters : { {} }, url_fields : { {} }]
    \cup
    [downloader : {"PreparedURLDownloader"},
     timedelta : {None, Some(-1)}, month_reference : {None},
     parameters : ParameterSets, url_fields : { {}, {"dt"} }]

\* What json.loads(config_data) gives for a configuration text that parses:
\* name and output_bucket may be missing, download_weekdays may be missing,
\* empty or hold up to MaxWeekdays weekdays.
Configs ==
    { [downloader |-> k.downloader, timedelta |-> k.timedelta,
       month_reference |-> k.month_reference, parameters |-> k.parameters,
       url_fields |-> k.url_fields, ext |-> Some("csv"),
       name |-> n, output_bucket |-> b, download_weekdays |-> w] :
      k \in KindAttrs,
      n \in {None, Some("cdi")},
      b \in {None, Some("raw")},
      w \in {None} \cup { Some(ws) : ws \in { x \in SUBSET Weekdays :
                                                Cardinality(x) <= MaxWeekdays } } }

\* downloader.now: the wall clock when the factory runs, one week of it
Nows == { date(2024, 3, d) : d \in 11 .. 17 }

\* datetime.now(timezone.utc).strftime("%Y-%m-%dT%H:%M:%S.%f%z")
DownloadTime(nw) == Strftime(nw, "%Y-%m-%dT%H:%M:%S.%f%z")

\* The call ends by returning a record or by raising to its caller.
Returned(record) == [ret |-> Some(record), exc |-> None]
Propagated(text) == [ret |-> None, exc |-> Some(text)]

\* config["output_bucket"] and config["name"], read in this order by each of
\* the three dict displays: the key whose lookup raises KeyError
MissingKey(cfg) ==
    IF cfg.output_bucket = None THEN Some("'output_bucket'")
    ELSE IF cfg.name = None THEN Some("'name'")
    ELSE None

\* A dict display of download_by_config evaluated: the record, or the KeyError
RunResult(cfg, message, download_status, status, refdate, filename, time) ==
    IF MissingKey(cfg) # None THEN Propagated(MissingKey(cfg)[1])
    ELSE Returned([message |-> message, download_status |-> download_status,
                   status |-> status, refdate |-> refdate, filename |-> filename,
                   bucket |-> cfg.output_bucket[1], name |-> cfg.name[1],
                   time |-> time])

\* config.get("download_weekdays") and downloader.now.weekday() not in
\* config.get("download_weekdays"): a missing key gives None and an empty
\* list is false
NotADateToDownload(cfg, nw) ==
    /\ cfg.download_weekdays # None
    /\ cfg.download_weekdays[1] # {}
    /\ Weekday(nw) \notin cfg.download_weekdays[1]

\* the record of the weekday gate
SkipResult(cfg, nw) ==
    RunResult(cfg,
              <<"Not a date to download. Weekday {} Download Weekdays {}",
                Weekday(nw), cfg.download_weekdays[1]>>,
              -1, -1, None, None, DownloadTime(nw))

\* the except clause with the status of a download that was not saved
ExceptResultAsNotSaved(cfg, nw, text) ==
    RunResult(cfg, <<text>>, -1, 1, None, None, DownloadTime(nw))

\* the except clause: str(ex) is the message
ExceptResult(cfg, nw, text) ==
    RunResult(cfg, <<text>>, -1, 2, None, None, DownloadTime(nw))

\* the return at the end of the try block; a KeyError of its dict display is
\* raised inside the try, so the except clause handles it
TryResult(cfg, nw, message, status, tuple) ==
    IF MissingKey(cfg) # None THEN ExceptResult(cfg, nw, MissingKey(cfg)[1])
    ELSE RunResult(cfg, <<message>>, tuple[3], status,
                   IF tuple[4] = None THEN None
                   ELSE Some(Strftime(tuple[4][1], "%Y-%m-%dT%H:%M:%S.%f%z")),
                   tuple[1], DownloadTime(nw))

DbcInit ==
    /\ pc = "start"
    /\ config = None
    /\ now = None
    /\ refdate_arg \in {None, Some(date(2024, 3, 14))}
    /\ env = None
    /\ dl_result = None
    /\ calls = <<>>
    /\ ret = None
    /\ exc = None

\* the call ends
Finish(outcome) ==
    /\ pc' = "done"
    /\ ret' = outcome.ret
    /\ exc' = outcome.exc

\* config = json.loads(config_data): the text does not parse and the
\* JSONDecodeError goes to the caller, or it gives a configuration
ParseConfig ==
    /\ pc = "start"
    /\ \E parses \in BOOLEAN :
          IF parses
          THEN /\ \E cfg \in Configs : config' = Some(cfg)
               /\ pc' = "factory"
               /\ UNCHANGED <<ret, exc>>
          ELSE /\ Finish(Propagated("JSONDecodeError"))
               /\ UNCHANGED config
    /\ UNCHANGED <<now, refdate_arg, env, dl_result, calls>>
    /\ UNCHANGED <<gm_vars, rd_vars, b3_vars>>

\* downloader = downloader_factory(**config) and download_time: an unknown
\* downloader kind raises to the caller
BuildDownloader ==
    /\ pc = "factory"
    /\ IF config[1].downloader \in DownloaderKinds
       THEN /\ \E nw \in Nows : now' = Some(nw)
            /\ pc' = "gate"
            /\ UNCHANGED <<ret, exc>>
       ELSE /\ Finish(Propagated("ConfigurationError"))
            /\ UNCHANGED now
    /\ UNCHANGED <<config, refdate_arg, env, dl_result, calls>>
    /\ UNCHANGED <<gm_vars, rd_vars, b3_vars>>

\* the weekday gate
WeekdayGate ==
    /\ pc = "gate"
    /\ IF NotADateToDownload(config[1], now[1])
       THEN Finish(SkipResult(config[1], now[1]))
       ELSE /\ pc' = "download"
            /\ UNCHANGED <<ret, exc>>
    /\ UNCHANGED <<config, now, refdate_arg, env, dl_result, calls>>
    /\ UNCHANGED <<gm_vars, rd_vars, b3_vars>>

\* downloader.download(refdate=refdate) is called and ends
CallDownload ==
    /\ pc = "download"
    /\ \E e \in EnvsOf(config[1]) :
          /\ env' = Some(e)
          /\ dl_result' = Some(download(config[1], now[1], refdate_arg, e))
    /\ calls' = Append(calls, <<"download", refdate_arg>>)
    /\ pc' = "unpack"
    /\ UNCHANGED <<config, now, refdate_arg, ret, exc>>
    /\ UNCHANGED <<gm_vars, rd_vars, b3_vars>>

\* status_code == 200
SaveWanted(status_code) == status_code = 200

\* fname, tfile, status_code, refdate = <the result>, and the branch on
\* status_code: an exception of the download, or a result that is not of four
\* elements, goes to the except clause
UnpackResult ==
    /\ pc = "unpack"
    /\ LET got == dl_result[1]
       IN  IF got.raised # None
           THEN Finish(ExceptResult(config[1], now[1], got.raised[1]))
           ELSE IF Len(got.value) # 4
           THEN Finish(ExceptResult(config[1], now[1],
                    "not enough values to unpack (expected 4, got 3)"))
           ELSE IF SaveWanted(got.value[3])
           THEN /\ pc' = "save"
                /\ UNCHANGED <<ret, exc>>
           ELSE Finish(TryResult(config[1], now[1], "File not saved", 1, got.value))
    /\ UNCHANGED <<config, now, refdate_arg, env, dl_result, calls>>
    /\ UNCHANGED <<gm_vars, rd_vars, b3_vars>>

\* save_func(config, fname, tfile) is called: it raises, or it returns and the
\* record of a saved file is returned.  calls keeps the arguments and the
\* error raised.
CallSave ==
    /\ pc = "save"
    /\ \E error \in {None, Some("PermissionError")} :
          /\ calls' = Append(calls, <<"save", dl_result[1].value[1],
                                      dl_result[1].value[2], error>>)
          /\ IF error # None
             THEN Finish(ExceptResult(config[1], now[1], error[1]))
             ELSE Finish(TryResult(config[1], now[1], "File saved", 0,
                                   dl_result[1].value))
    /\ UNCHANGED <<config, now, refdate_arg, env, dl_result>>
    /\ UNCHANGED <<gm_vars, rd_vars, b3_vars>>

(***************************************************************************)
(* B3FilesURLDownloader.download(refdate), request by request              *)
(***************************************************************************)
B3Init ==
    /\ b3_pc = "start"
    /\ b3_now = None
    /\ b3_refdate = None
    /\ b3_requests = <<>>
    /\ b3_sc1 = None
    /\ b3_sc2 = None
    /\ b3_result = None
    /\ b3_exc = None

\* refdate = refdate or self.get_refdate(): the argument, or what the ANBIMA
\* calendar gives for offset(now, attrs.get("offset", 0)), a day at or before
\* now
B3ResolveRefdate ==
    /\ b3_pc = "start"
    /\ \E nw \in Nows :
          /\ b3_now' = Some(nw)
          /\ \E given \in BOOLEAN, back \in 0 .. 3 :
                b3_refdate' = IF given THEN Some(date(2024, 3, 14))
                              ELSE Some(AddDays(nw, 0 - back))
    /\ b3_pc' = "requestname"
    /\ UNCHANGED <<b3_requests, b3_sc1, b3_sc2, b3_result, b3_exc>>
    /\ UNCHANGED <<gm_vars, rd_vars, dbc_vars>>

\* if res.status_code != 200 after the token request, with the test lost
Step1NeverAborts(status_code) == FALSE

\* if res.status_code != 200 after the token request
Step1Aborts(status_code) == status_code # 200

\* if res.status_code != 200 after the download request
Step2Aborts(status_code) == status_code # 200

\* step 1: requests.get of the requestname endpoint; it raises, or it answers
\* with a status code, and a status code other than 200 ends the download
B3RequestToken ==
    /\ b3_pc = "requestname"
    /\ b3_requests' = Append(b3_requests,
            [endpoint |-> "requestname", arg |-> Strftime(b3_refdate[1], "%Y-%m-%d")])
    /\ \E error \in {None, Some("ConnectionError")}, sc \in StatusCodes :
          IF error # None
          THEN /\ b3_exc' = error
               /\ b3_pc' = "done"
               /\ UNCHANGED <<b3_sc1, b3_result>>
          ELSE /\ b3_sc1' = Some(sc)
               /\ IF Step1Aborts(sc)
                  THEN /\ b3_result' = Some(<<None, None, sc, b3_refdate>>)
                       /\ b3_pc' = "done"
                  ELSE /\ b3_pc' = "token"
                       /\ UNCHANGED b3_result
               /\ UNCHANGED b3_exc
    /\ UNCHANGED <<b3_now, b3_refdate, b3_sc2>>
    /\ UNCHANGED <<gm_vars, rd_vars, dbc_vars>>

\* ret = res.json() and ret["token"]: a body that is no JSON object with a
\* token raises
B3ReadToken ==
    /\ b3_pc = "token"
    /\ \E has_token \in BOOLEAN :
          IF has_token
          THEN /\ b3_pc' = "download"
               /\ UNCHANGED b3_exc
          ELSE /\ b3_exc' = Some("'token'")
               /\ b3_pc' = "done"
    /\ UNCHANGED <<b3_now, b3_refdate, b3_requests, b3_sc1, b3_sc2, b3_result>>
    /\ UNCHANGED <<gm_vars, rd_vars, dbc_vars>>

\* step 2: download_url of the download endpoint with the token; it raises,
\* or it answers, and a status code other than 200 gives no file
B3DownloadFile ==
    /\ b3_pc = "download"
    /\ b3_requests' = Append(b3_requests,
            [endpoint |-> "download", arg |-> <<"token">>])
    /\ \E error \in {None, Some("ConnectionError")}, sc \in StatusCodes :
          IF error # None
          THEN /\ b3_exc' = error
               /\ UNCHANGED <<b3_sc2, b3_result>>
          ELSE /\ b3_sc2' = Some(sc)
               /\ b3_result' =
                    IF Step2Aborts(sc)
                    THEN Some(<<None, None, sc, b3_refdate>>)
                    ELSE Some(<<Some(get_fname(<<"fname">>, b3_refdate[1])),
                                Some("temp_file"), sc, b3_refdate>>)
               /\ UNCHANGED b3_exc
    /\ b3_pc' = "done"
    /\ UNCHANGED <<b3_now, b3_refdate, b3_sc1>>
    /\ UNCHANGED <<gm_vars, rd_vars, dbc_vars>>

(***************************************************************************)
(* The specifications                                                      *)
(***************************************************************************)
\* what the variables of a part hold in the specifications of the other parts
GmIdle ==
    /\ gm_dt = None
    /\ gm_monthdelta = 0
    /\ gm_result = None

RdIdle ==
    /\ downloaded_files = <<>>
    /\ rd_name = "none"
    /\ rd_before = <<>>
    /\ rd_parsed = None

DbcIdle ==
    /\ pc = "idle"
    /\ config = None
    /\ now = None
    /\ refdate_arg = None
    /\ env = None
    /\ dl_result = None
    /\ calls = <<>>
    /\ ret = None
    /\ exc = None

B3Idle ==
    /\ b3_pc = "idle"
    /\ b3_now = None
    /\ b3_refdate = None
    /\ b3_requests = <<>>
    /\ b3_sc1 = None
    /\ b3_sc2 = None
    /\ b3_result = None
    /\ b3_exc = None

\* download_by_config
Init == DbcInit /\ GmIdle /\ RdIdle /\ B3Idle

Next ==
    \/ ParseConfig
    \/ BuildDownloader
    \/ WeekdayGate
    \/ CallDownload
    \/ UnpackResult
    \/ CallSave

Spec == Init /\ [][Next]_vars

\* get_month
InitMonth == GmInit /\ RdIdle /\ DbcIdle /\ B3Idle

NextMonth == GetMonthCall

SpecMonth == InitMonth /\ [][NextMonth]_vars

\* the readers
InitReaders == RdInit /\ GmIdle /\ DbcIdle /\ B3Idle

NextReaders ==
    \/ read_b3_cotahist
    \/ read_b3_bvbg028
    \/ read_b3_bvbg086
    \/ read_b3_cdi
    \/ read_b3_futures_settlement_prices

SpecReaders == InitReaders /\ [][NextReaders]_vars

\* B3FilesURLDownloader.download
InitB3 == B3Init /\ GmIdle /\ RdIdle /\ DbcIdle

NextB3 ==
    \/ B3ResolveRefdate
    \/ B3RequestToken
    \/ B3ReadToken
    \/ B3DownloadFile

SpecB3 == InitB3 /\ [][NextB3]_vars

(***************************************************************************)
(* The claims                                                              *)
(***************************************************************************)
\* the calls of the save operation so far
SaveCalls == { i \in DOMAIN calls : calls[i][1] = "save" }
DownloadCalls == { i \in DOMAIN calls : calls[i][1] = "download" }

\* the configuration holds name and output_bucket, as the data model requires
WellFormed == config # None /\ MissingKey(config[1]) = None

\* C1: download_by_config never propagates an exception to its caller: every
\* call ends by returning a run-result record.
C1_NeverPropagates ==
    pc = "done" => (exc = None /\ ret # None)

\* C2: for a configuration holding name and output_bucket, whenever
\* download_weekdays is specified (any set of weekdays, the empty one too) and
\* the weekday of downloader.now is not in it, the call returns the record of
\* a skipped download and calls neither download nor save; without
\* download_weekdays the gate skips nothing.
C2_WeekdayGate ==
    (pc = "done" /\ WellFormed /\ now # None) =>
        /\ (config[1].download_weekdays # None
              /\ Weekday(now[1]) \notin config[1].download_weekdays[1])
            => /\ ret # None
               /\ ret[1].status = -1
               /\ ret[1].download_status = -1
               /\ ret[1].refdate = None
               /\ ret[1].filename = None
               /\ calls = <<>>
        /\ config[1].download_weekdays = None
            => (ret # None /\ ret[1].status # -1 /\ DownloadCalls # {})

\* C3: for a configuration holding name and output_bucket, save is called if
\* and only if the download returned status code 200; on 200 it is called
\* once and, when it returns, the record has status 0, "File saved" and
\* download_status 200; on any other status code the record has status 1,
\* "File not saved" and that status code, and save is not called.
C3_SaveIffStatus200 ==
    (pc = "done" /\ WellFormed /\ dl_result # None /\ dl_result[1].raised = None) =>
        LET status_code == dl_result[1].value[3]
        IN  /\ (SaveCalls # {}) <=> (status_code = 200)
            /\ Cardinality(SaveCalls) <= 1
            /\ (status_code = 200 /\ calls[Len(calls)][4] = None)
                => /\ ret # None
                   /\ ret[1].status = 0
                   /\ ret[1].message = <<"File saved">>
                   /\ ret[1].download_status = 200
            /\ status_code # 200
                => /\ ret # None
                   /\ ret[1].status = 1
                   /\ ret[1].message = <<"File not saved">>
                   /\ ret[1].download_status = status_code

\* the error the download or the save operation raised, if one did
RaisedText ==
    IF dl_result # None /\ dl_result[1].raised # None THEN dl_result[1].raised
    ELSE IF SaveCalls # {} /\ calls[Len(calls)][4] # None THEN calls[Len(calls)][4]
    ELSE None

\* C4: when downloader.download or the save operation raises an error of text
\* t, download_by_config returns the record with status 2, download_status
\* -1, no refdate, no filename, message t, and bucket, name and time from the
\* configuration's output_bucket and name and from download_time.
C4_ExceptionContained ==
    (pc = "done" /\ WellFormed /\ RaisedText # None) =>
        /\ exc = None
        /\ ret = Some([message |-> RaisedText, download_status |-> -1,
                       status |-> 2, refdate |-> None, filename |-> None,
                       bucket |-> config[1].output_bucket[1],
                       name |-> config[1].name[1],
                       time |-> DownloadTime(now[1])])

\* a download that raised and was turned into the record of status 2
C4_Witness ==
    /\ pc = "done"
    /\ WellFormed
    /\ dl_result # None
    /\ dl_result[1].raised = Some("ConnectionError")
    /\ ret # None
    /\ ret[1].status = 2
    /\ ret[1].message = <<"ConnectionError">>

\* PreparedURLDownloader.download fetched an archive of no entries
EmptyArchiveFetched(kinds) ==
    /\ dl_result # None
    /\ config[1].downloader \in kinds
    /\ env[1].error = None
    /\ env[1].sc = 200
    /\ env[1].entries = 0
    /\ dl_result[1].raised = None

\* C8 as claimed: on an archive of no entries PreparedURLDownloader.download
\* returns the 3-element result (no filename, no stream, 204), with no refdate.
C8_ThreeElementResult ==
    EmptyArchiveFetched({"PreparedURLDownloader"}) =>
        dl_result[1].value = <<None, None, 204>>

\* C8 as amended: on an archive of no entries PreparedURLDownloader.download
\* returns the 4-element result (no filename, no stream, 204, refdate), refdate
\* being the argument or now + timedelta; only its helper returns 3 elements.
C8_FourElementResult ==
    EmptyArchiveFetched({"PreparedURLDownloader"}) =>
        /\ download_unzip_historical_data(env[1]).value = <<None, None, 204>>
        /\ dl_result[1].value =
             <<None, None, 204,
               IF refdate_arg # None THEN refdate_arg
               ELSE IF config[1].timedelta = None THEN now
               ELSE Some(AddDays(now[1], config[1].timedelta[1]))>>

\* an empty archive fetched by a PreparedURLDownloader without a refdate
C8_Witness ==
    /\ EmptyArchiveFetched({"PreparedURLDownloader"})
    /\ refdate_arg = None
    /\ config[1].timedelta = Some(-1)
    /\ Len(dl_result[1].value) = 4

\* C9: for each zip-unwrapping downloader, when the fetch returns 200 and the
\* archive has no entries, download_by_config returns a record with
\* download_status 204, status 1 and no filename, and save is not called.
C9_EmptyArchiveDegraded ==
    (pc = "done" /\ WellFormed
        /\ EmptyArchiveFetched({"StaticZipFileDownloader",
                                "FundosInfDiarioDownloader",
                                "PreparedURLDownloader"})) =>
        /\ ret # None
        /\ ret[1].download_status = 204
        /\ ret[1].status = 1
        /\ ret[1].filename = None
        /\ SaveCalls = {}

\* the filenames of a list
Range(files) == { files[i] : i \in DOMAIN files }

\* a comes at or before b in lexicographic order: they are equal, or at the
\* first place where they differ a has ended or holds the smaller character
LexLeq(a, b) ==
    \/ a = b
    \/ \E i \in 1 .. Len(b) :
          /\ \A j \in 1 .. (i - 1) : j <= Len(a) /\ a[j] = b[j]
          /\ i > Len(a) \/ a[i] < b[i]

SortingReaders == {"read_b3_bvbg028", "read_b3_bvbg086"}

\* C5: for every non-empty collection of cached filenames, in any order,
\* read_b3_bvbg028 and read_b3_bvbg086 parse the lexicographically greatest
\* filename of the collection, and read_b3_cotahist, read_b3_cdi and
\* read_b3_futures_settlement_prices parse the first one in stored order.
C5_MostRecentFile ==
    (rd_name # "none" /\ rd_before # <<>>) =>
        /\ rd_parsed # None
        /\ IF rd_name \in SortingReaders
           THEN /\ rd_parsed[1] \in Range(rd_before)
                /\ \A f \in Range(rd_before) : LexLeq(f, rd_parsed[1])
           ELSE rd_parsed[1] = rd_before[1]

\* read_b3_bvbg028 on three filenames whose greatest is neither first nor last
C5_Witness ==
    /\ rd_name = "read_b3_bvbg028"
    /\ rd_before = << <<1, 1>>, <<2, 1>>, <<1, 2>> >>
    /\ rd_parsed = Some(<<2, 1>>)

\* C6: after any call of a named reader, meta.downloaded_files holds the same
\* filenames in the same order as before the call.
C6_ReadersDoNotMutate ==
    rd_name # "none" => downloaded_files = rd_before

\* the first day of the month n months before the month of dt, by counting
\* months from year 0
MonthsBefore(dt, n) ==
    LET months == dt.year * 12 + (dt.month - 1) - n
    IN  date(months \div 12, (months % 12) + 1, 1)

\* C7: for every date d and every non-positive k, get_month(d, k) ends and
\* returns the first day of the month |k| months before the month of d, the
\* year rolled back across January.
C7_MonthReference ==
    (gm_result # None /\ gm_monthdelta <= 0) =>
        gm_result[1] = MonthsBefore(gm_dt[1], 0 - gm_monthdelta)

\* get_month(2024-01-10, -2) = 2023-11-01
C7_Witness ==
    /\ gm_dt = Some(date(2024, 1, 10))
    /\ gm_monthdelta = -2
    /\ gm_result = Some(date(2023, 11, 1))

\* the requests made to an endpoint so far
RequestsTo(endpoint) ==
    { i \in DOMAIN b3_requests : b3_requests[i].endpoint = endpoint }

\* C10: B3FilesURLDownloader.download makes the token request before the
\* download request, and the download request only after a token request
\* answered 200; a token request not answered 200 gives (None, None, its
\* status, refdate) and no download request; a download request not answered
\* 200 gives (None, None, its status, refdate); a filename and a stream are
\* returned only when both were answered 200.
C10_TwoStepFetch ==
    /\ \A i \in RequestsTo("download") :
          /\ \E j \in RequestsTo("requestname") : j < i
          /\ b3_sc1 = Some(200)
    /\ Cardinality(RequestsTo("requestname")) <= 1
    /\ Cardinality(RequestsTo("download")) <= 1
    /\ (b3_sc1 # None /\ b3_sc1[1] # 200) =>
          /\ b3_pc = "done"
          /\ b3_result = Some(<<None, None, b3_sc1[1], b3_refdate>>)
          /\ RequestsTo("download") = {}
    /\ (b3_sc2 # None /\ b3_sc2[1] # 200) =>
          /\ b3_pc = "done"
          /\ b3_result = Some(<<None, None, b3_sc2[1], b3_refdate>>)
    /\ (b3_result # None /\ (b3_result[1][1] # None \/ b3_result[1][2] # None)) =>
          /\ b3_sc1 = Some(200)
          /\ b3_sc2 = Some(200)
    /\ (b3_pc = "done" /\ b3_sc1 = Some(200) /\ b3_sc2 = Some(200)) =>
          /\ b3_result # None
          /\ b3_result[1][2] # None
          /\ b3_result[1][3] = 200
          /\ b3_result[1][4] = b3_refdate

\* a token request answered 200 and a download request answered 404
C10_Witness ==
    /\ b3_pc = "done"
    /\ b3_sc1 = Some(200)
    /\ b3_sc2 = Some(404)
    /\ Len(b3_requests) = 2
    /\ b3_result = Some(<<None, None, 404, b3_refdate>>)

\* the refdate PreparedURLDownloader.download works with in the call made:
\* the one handed in, or now shifted by attrs["timedelta"]
PreparedRefdate ==
    IF refdate_arg # None THEN refdate_arg[1]
    ELSE AddDays(now[1], IF config[1].timedelta # None
                         THEN config[1].timedelta[1] ELSE 0)

\* the parameter map as the claim describes it: the formatted refdate for a
\* descriptor of type "datetime", the configured value itself for anything else
ClaimedParams(parameters, refdate) ==
    { [name |-> p.name,
       value |-> IF p.isdict /\ p.type = "datetime"
                 THEN Strftime(refdate, p.value)
                 ELSE IF p.isdict THEN <<p.type, p.value>> ELSE <<p.value>>] :
      p \in parameters }

\* PreparedURLDownloader.download was called
PreparedCalled ==
    /\ dl_result # None
    /\ config[1].downloader = "PreparedURLDownloader"

\* C11 as claimed: PreparedURLDownloader.download builds one parameter for
\* every name of attrs["parameters"], the formatted refdate for a descriptor of
\* type "datetime" and the configured value for anything else, so that no
\* configured name is missing from the map and a URL whose placeholders are all
\* configured names is formatted without a KeyError.
C11_EveryParameterBuilt ==
    PreparedCalled =>
        LET configured == config[1].parameters
            built == BuildParams(configured, PreparedRefdate)
            names == { p.name : p \in configured }
        IN  /\ { p.name : p \in built } = names
            /\ built = ClaimedParams(configured, PreparedRefdate)
            /\ config[1].url_fields \subseteq names =>
                   \A n \in names : dl_result[1].raised # Some(n)

\* a descriptor of another type was configured for the URL's placeholder and
\* the call ended in the KeyError of url.format
C11_DroppedParameter ==
    /\ PreparedCalled
    /\ \E p \in config[1].parameters :
           /\ p.isdict /\ p.type # "datetime"
           /\ p.name \in config[1].url_fields
           /\ dl_result[1].raised = Some(p.name)

====
